---- MODULE Spec2Model ----
(***************************************************************************)
(* MVCC key-value transaction engine of src/mvcc.c: per-key version chains *)
(* (newest first), exclusive per-key write locks with a wait-for graph and *)
(* cycle detection, and the begin/read/write/commit/abort protocol.        *)
(* Every critical section of global_lock is one atomic step; a call that   *)
(* takes the mutex several times is several steps, with pc[t] holding the  *)
(* caller's position between them.                                         *)
(***************************************************************************)
EXTENDS Integers, Sequences, FiniteSets, TLC

\* ---------------------------------------------------------------- bounds
MaxTx == 2          \* transactions the callers of Spec begin
MaxReads == 1       \* tx_read calls recorded per transaction in Spec
MaxWrites == 2      \* versions a transaction buffers in Spec

\* ------------------------------------------------------ program constants
MAX_KEYS == 64
MAX_TRANSACTIONS == 128
MAX_READSET == 64

TxIds == 1..(MaxTx + 1)     \* the slots of tx_table in use; the demo begins three
KeyNames == {"A", "B", "C"}      \* "C" is never created by main
Values == {"v1", "v2"}
NULL == "(null)"
Workers == {"t1", "t2"}
Threads == Workers \cup {"main"}
\* WorkerArgs a1 and a2 of main, lines 304-305.
WorkerArgs ==
    [t1 |-> [k1 |-> "A", v1 |-> "v1_from_tx1", k2 |-> "B", v2 |-> "v2_from_tx1"],
     t2 |-> [k1 |-> "B", v1 |-> "v1_from_tx2", k2 |-> "A", v2 |-> "v2_from_tx2"]]

VARIABLES
    store,              \* Key store[MAX_KEYS], store_count = Len(store)
    global_commit_ts,
    global_tx_seq,
    wait_for,           \* the set of <<a, b>> with wait_for[a][b] = 1
    tx_table,           \* tx_table[id], NoTx where the slot is NULL
    pc,                 \* position of each transaction's caller
    arg,                \* arguments and loop index of the call in progress
    thread              \* the threads of main: where each is, and its transaction

vars == <<store, global_commit_ts, global_tx_seq, wait_for, tx_table, pc, arg, thread>>

NoTx == [id |-> 0, start_ts |-> 0, state |-> "TX_NONE", read_set |-> <<>>,
         write_set_keys |-> <<>>, write_set_vals |-> <<>>]
NoArg == [key |-> "", value |-> "", i |-> 0]

Version(ts, owner, value) == [commit_ts |-> ts, tx_owner |-> owner, value |-> value]

\* ------------------------------------------------------------ key store
get_key(st, k) ==
    IF \E i \in 1..Len(st) : st[i].name = k
    THEN CHOOSE i \in 1..Len(st) :
            st[i].name = k /\ \A j \in 1..(i-1) : st[j].name # k
    ELSE 0

create_key(st, k, initial) ==
    IF Len(st) >= MAX_KEYS THEN st
    ELSE Append(st, [name |-> k, versions |-> <<Version(1, 0, initial)>>,
                     lock_owner |-> 0])

\* --------------------------------------------------------- wait-for graph
add_wait_edge(wf, a, b) ==
    IF a <= 0 \/ b <= 0 \/ a > MAX_TRANSACTIONS \/ b > MAX_TRANSACTIONS THEN wf
    ELSE wf \cup {<<a, b>>}

remove_wait_edges_of(wf, a) ==
    IF a <= 0 THEN wf
    ELSE {e \in wf : e[1] # a /\ e[2] # a}

RECURSIVE dfs_cycle(_, _, _, _), dfs_scan(_, _, _, _, _)
\* Mutant of dfs_scan: the stack test of line 91 is missing, so an edge to any
\* node already visited counts as a cycle.
RECURSIVE dfs_scan_visited(_, _, _, _, _)
dfs_scan_visited(wf, node, j, visited, stack) ==
    IF j > MaxTx + 1 THEN [found |-> FALSE, visited |-> visited, stack |-> stack \ {node}]
    ELSE IF <<node, j>> \in wf
         THEN IF j \notin visited
              THEN LET r == dfs_cycle(wf, j, visited, stack)
                   IN  IF r.found THEN r
                       ELSE dfs_scan_visited(wf, node, j + 1, r.visited, r.stack)
              ELSE [found |-> TRUE, visited |-> visited, stack |-> stack]
         ELSE dfs_scan_visited(wf, node, j + 1, visited, stack)

dfs_scan(wf, node, j, visited, stack) ==
    IF j > MaxTx + 1 THEN [found |-> FALSE, visited |-> visited, stack |-> stack \ {node}]
    ELSE IF <<node, j>> \in wf
         THEN IF j \notin visited
              THEN LET r == dfs_cycle(wf, j, visited, stack)
                   IN  IF r.found THEN r
                       ELSE dfs_scan(wf, node, j + 1, r.visited, r.stack)
              ELSE IF j \in stack
                   THEN [found |-> TRUE, visited |-> visited, stack |-> stack]
                   ELSE dfs_scan(wf, node, j + 1, visited, stack)
         ELSE dfs_scan(wf, node, j + 1, visited, stack)

dfs_cycle(wf, node, visited, stack) ==
    dfs_scan(wf, node, 1, visited \cup {node}, stack \cup {node})

RECURSIVE detect_from(_, _, _, _, _)
detect_from(wf, table, i, visited, stack) ==
    IF i > MaxTx + 1 THEN FALSE
    ELSE IF table[i].id # 0 /\ i \notin visited
         THEN LET r == dfs_cycle(wf, i, visited, stack)
              IN  IF r.found THEN TRUE
                  ELSE detect_from(wf, table, i + 1, r.visited, r.stack)
         ELSE detect_from(wf, table, i + 1, visited, stack)

\* Mutant of detect_deadlock: no cycle is ever reported.
detect_deadlock_never(wf, table) == FALSE

detect_deadlock(wf, table) == detect_from(wf, table, 1, {}, {})

\* ----------------------------------------------------------------- reads
RECURSIVE mvcc_walk(_, _, _)
mvcc_walk(tx, versions, n) ==
    IF n > Len(versions) THEN NULL
    ELSE IF versions[n].commit_ts > 0 /\ versions[n].commit_ts <= tx.start_ts
         THEN versions[n].value
         ELSE IF versions[n].commit_ts = 0 /\ versions[n].tx_owner = tx.id
              THEN versions[n].value
              ELSE mvcc_walk(tx, versions, n + 1)

\* Mutant of mvcc_read: the snapshot bound of line 112 is missing, so the
\* newest committed version is returned.
RECURSIVE mvcc_walk_latest(_, _, _)
mvcc_walk_latest(tx, versions, n) ==
    IF n > Len(versions) THEN NULL
    ELSE IF versions[n].commit_ts > 0
         THEN versions[n].value
         ELSE IF versions[n].commit_ts = 0 /\ versions[n].tx_owner = tx.id
              THEN versions[n].value
              ELSE mvcc_walk_latest(tx, versions, n + 1)

mvcc_read_latest(tx, key) == mvcc_walk_latest(tx, key.versions, 1)

\* Mutant of mvcc_read: the test of line 113 is missing, so only committed
\* versions are returned.
mvcc_read_committed(tx, key) ==
    mvcc_walk([tx EXCEPT !.id = 0], key.versions, 1)

mvcc_read(tx, key) == mvcc_walk(tx, key.versions, 1)

record_read(tx, key) ==
    IF Len(tx.read_set) < MAX_READSET
    THEN [tx EXCEPT !.read_set = Append(@, key)]
    ELSE tx

record_write_buffer(tx, key, val) ==
    IF Len(tx.write_set_keys) < MAX_READSET
    THEN [tx EXCEPT !.write_set_keys = Append(@, key),
                    !.write_set_vals = Append(@, val)]
    ELSE tx

\* ----------------------------------------------------------------- locks
\* Mutant of acquire_key_lock: the owner of the key is not looked at.
acquire_key_lock_any(st, wf, table, tid, keyname) ==
    LET k == get_key(st, keyname) IN
    IF k = 0 THEN [rc |-> "fail", store |-> st, wait_for |-> wf]
    ELSE [rc |-> "ok", store |-> [st EXCEPT ![k].lock_owner = tid],
          wait_for |-> remove_wait_edges_of(wf, tid)]

\* Mutant of acquire_key_lock: a key another transaction holds is not waited
\* for; the call returns 0 without the lock.
acquire_key_lock_nowait(st, wf, table, tid, keyname) ==
    LET k == get_key(st, keyname) IN
    IF k = 0 THEN [rc |-> "fail", store |-> st, wait_for |-> wf]
    ELSE IF st[k].lock_owner = 0
         THEN [rc |-> "ok", store |-> [st EXCEPT ![k].lock_owner = tid],
               wait_for |-> remove_wait_edges_of(wf, tid)]
         ELSE [rc |-> "ok", store |-> st, wait_for |-> wf]

\* Mutant of acquire_key_lock: the deadlock return also frees the locks the
\* caller holds.
acquire_key_lock_rollback(st, wf, table, tid, keyname) ==
    LET k == get_key(st, keyname) IN
    IF k = 0 THEN [rc |-> "fail", store |-> st, wait_for |-> wf]
    ELSE IF st[k].lock_owner = 0
         THEN [rc |-> "ok", store |-> [st EXCEPT ![k].lock_owner = tid],
               wait_for |-> remove_wait_edges_of(wf, tid)]
         ELSE IF st[k].lock_owner = tid
              THEN [rc |-> "ok", store |-> st, wait_for |-> wf]
              ELSE LET wf1 == add_wait_edge(wf, tid, st[k].lock_owner) IN
                   IF detect_deadlock(wf1, table)
                   THEN [rc |-> "fail",
                         store |-> [i \in 1..Len(st) |->
                                      IF st[i].lock_owner = tid
                                      THEN [st[i] EXCEPT !.lock_owner = 0] ELSE st[i]],
                         wait_for |-> remove_wait_edges_of(wf1, tid)]
                   ELSE [rc |-> "retry", store |-> st, wait_for |-> wf1]

\* One pass of the loop of acquire_key_lock: "ok" and "fail" are its two
\* returns, "retry" is the usleep and continue.
acquire_key_lock(st, wf, table, tid, keyname) ==
    LET k == get_key(st, keyname) IN
    IF k = 0 THEN [rc |-> "fail", store |-> st, wait_for |-> wf]
    ELSE IF st[k].lock_owner = 0
         THEN [rc |-> "ok", store |-> [st EXCEPT ![k].lock_owner = tid],
               wait_for |-> remove_wait_edges_of(wf, tid)]
         ELSE IF st[k].lock_owner = tid
              THEN [rc |-> "ok", store |-> st, wait_for |-> wf]
              ELSE LET wf1 == add_wait_edge(wf, tid, st[k].lock_owner) IN
                   IF detect_deadlock(wf1, table)
                   THEN [rc |-> "fail", store |-> st,
                         wait_for |-> remove_wait_edges_of(wf1, tid)]
                   ELSE [rc |-> "retry", store |-> st, wait_for |-> wf1]

release_store(st, tid) ==
    [i \in 1..Len(st) |->
        IF st[i].lock_owner = tid THEN [st[i] EXCEPT !.lock_owner = 0] ELSE st[i]]

\* ---------------------------------------------------------- commit, abort
check_read_write_conflicts(st, tx) ==
    IF \E i \in 1..Len(tx.read_set) :
          LET k == get_key(st, tx.read_set[i]) IN
             /\ k # 0
             /\ Len(st[k].versions) > 0
             /\ st[k].versions[1].commit_ts > tx.start_ts
    THEN -1 ELSE 0

IsOwn(v, tid) == v.commit_ts = 0 /\ v.tx_owner = tid

\* Mutant of stamp_chain: the counter is not advanced (commit_ts = global_commit_ts).
RECURSIVE stamp_chain_noinc(_, _, _, _)
stamp_chain_noinc(versions, n, tid, ts) ==
    IF n > Len(versions) THEN [versions |-> versions, ts |-> ts]
    ELSE IF IsOwn(versions[n], tid)
         THEN stamp_chain_noinc([versions EXCEPT ![n] = Version(ts, 0, @.value)],
                                n + 1, tid, ts)
         ELSE stamp_chain_noinc(versions, n + 1, tid, ts)

\* The stamping loops of tx_commit, lines 242-253: keys in store order, each
\* chain from its head, one ++global_commit_ts per version stamped.
RECURSIVE stamp_chain(_, _, _, _)
stamp_chain(versions, n, tid, ts) ==
    IF n > Len(versions) THEN [versions |-> versions, ts |-> ts]
    ELSE IF IsOwn(versions[n], tid)
         THEN stamp_chain([versions EXCEPT ![n] = Version(ts + 1, 0, @.value)],
                          n + 1, tid, ts + 1)
         ELSE stamp_chain(versions, n + 1, tid, ts)

RECURSIVE stamp_store(_, _, _, _)
stamp_store(st, i, tid, ts) ==
    IF i > Len(st) THEN [store |-> st, ts |-> ts]
    ELSE LET r == stamp_chain(st[i].versions, 1, tid, ts)
         IN  stamp_store([st EXCEPT ![i].versions = r.versions], i + 1, tid, r.ts)

\* The unlinking loop of tx_abort, lines 265-277: an unlinked version's
\* successor takes its place and is looked at next.
RECURSIVE discard_walk(_, _, _)
discard_walk(versions, n, tid) ==
    IF n > Len(versions) THEN versions
    ELSE IF IsOwn(versions[n], tid)
         THEN discard_walk(SubSeq(versions, 1, n - 1) \o SubSeq(versions, n + 1, Len(versions)),
                           n, tid)
         ELSE discard_walk(versions, n + 1, tid)

\* Mutant of discard_chain: the loop stops at the first version it unlinks.
discard_chain_first(versions, tid) ==
    IF \E n \in 1..Len(versions) : IsOwn(versions[n], tid)
    THEN LET n == CHOOSE n \in 1..Len(versions) :
                     IsOwn(versions[n], tid) /\ \A m \in 1..(n - 1) : ~IsOwn(versions[m], tid)
         IN  SubSeq(versions, 1, n - 1) \o SubSeq(versions, n + 1, Len(versions))
    ELSE versions

discard_chain(versions, tid) == discard_walk(versions, 1, tid)

discard_store(st, tid) ==
    [i \in 1..Len(st) |-> [st[i] EXCEPT !.versions = discard_chain(@, tid)]]

\* ------------------------------------------------------------------ Init
\* main, lines 300-301: the two keys of the demo are created before any
\* transaction begins.
InitEngine ==
    /\ store = create_key(create_key(<<>>, "A", "initialA"), "B", "initialB")
    /\ global_commit_ts = 1
    /\ global_tx_seq = 1
    /\ wait_for = {}
    /\ tx_table = [t \in TxIds |-> NoTx]
    /\ pc = [t \in TxIds |-> "idle"]
    /\ arg = [t \in TxIds |-> NoArg]

\* The engine driven through its API by arbitrary callers: no thread of main runs.
Init ==
    /\ InitEngine
    /\ thread = [w \in Threads |-> [step |-> "off", tx |-> 0, rc |-> 0]]

\* --------------------------------------------------------------- actions
Idle(t) == tx_table[t].id # 0 /\ pc[t] = "idle"
Active(t) == tx_table[t].state = "TX_ACTIVE"
\* The call returns to its caller; the return code is named where it is used.
Return(t) ==
    /\ pc' = [pc EXCEPT ![t] = "idle"]
    /\ arg' = [arg EXCEPT ![t] = NoArg]

\* Mutant of tx_begin: the snapshot is taken one ahead of the commit counter.
tx_begin_ahead ==
    /\ global_tx_seq \in TxIds
    /\ LET id == global_tx_seq IN
          /\ global_tx_seq' = global_tx_seq + 1
          /\ tx_table' = [tx_table EXCEPT ![id] =
                 [id |-> id, start_ts |-> global_commit_ts + 1, state |-> "TX_ACTIVE",
                  read_set |-> <<>>, write_set_keys |-> <<>>, write_set_vals |-> <<>>]]
    /\ UNCHANGED <<store, global_commit_ts, wait_for, pc, arg>>

\* tx_begin, lines 119-130.
tx_begin ==
    /\ global_tx_seq \in TxIds
    /\ LET id == global_tx_seq IN
          /\ global_tx_seq' = global_tx_seq + 1
          /\ tx_table' = [tx_table EXCEPT ![id] =
                 [id |-> id, start_ts |-> global_commit_ts, state |-> "TX_ACTIVE",
                  read_set |-> <<>>, write_set_keys |-> <<>>, write_set_vals |-> <<>>]]
    /\ UNCHANGED <<store, global_commit_ts, wait_for, pc, arg>>

\* tx_read, lines 180-189: nothing happens on a transaction that is not Active.
tx_read(t, keyname) ==
    /\ Idle(t)
    /\ IF ~Active(t)
       THEN UNCHANGED <<store, global_commit_ts, global_tx_seq, wait_for, tx_table,
                        pc, arg>>
       ELSE /\ tx_table' = [tx_table EXCEPT ![t] = record_read(@, keyname)]
            /\ UNCHANGED <<store, global_commit_ts, global_tx_seq, wait_for, pc, arg>>

\* What tx_read prints at line 187: the value mvcc_read finds, or (null).
read_value(t, keyname) ==
    LET k == get_key(store, keyname)
    IN  IF k # 0 THEN mvcc_read(tx_table[t], store[k]) ELSE NULL

\* One pass of acquire_key_lock as called by tx_write, lines 193-196: the
\* failure return marks the transaction Aborted and returns -1.
write_acquire(t, keyname, value) ==
    LET r == acquire_key_lock(store, wait_for, tx_table, t, keyname) IN
    /\ store' = r.store
    /\ wait_for' = r.wait_for
    /\ UNCHANGED <<global_commit_ts, global_tx_seq>>
    /\ IF r.rc = "fail"
       THEN /\ tx_table' = [tx_table EXCEPT ![t].state = "TX_ABORTED"]
            /\ Return(t)
       ELSE /\ pc' = [pc EXCEPT ![t] = IF r.rc = "ok" THEN "write_buffer"
                                                      ELSE "write_acquire"]
            /\ arg' = [arg EXCEPT ![t] = [key |-> keyname, value |-> value, i |-> 0]]
            /\ UNCHANGED tx_table

\* tx_write, lines 191-196: the state test and the first pass of the lock loop.
tx_write(t, keyname, value) ==
    /\ Idle(t)
    /\ IF ~Active(t)
       THEN /\ Return(t)
            /\ UNCHANGED <<store, global_commit_ts, global_tx_seq, wait_for, tx_table>>
       ELSE write_acquire(t, keyname, value)

\* acquire_key_lock, lines 166-168: the next pass after the usleep.
write_retry(t) ==
    /\ pc[t] = "write_acquire"
    /\ write_acquire(t, arg[t].key, arg[t].value)

\* tx_write, lines 197-209: the version is pushed on the head of the chain.
write_buffer(t) ==
    /\ pc[t] = "write_buffer"
    /\ LET k0 == get_key(store, arg[t].key)
           st == IF k0 = 0 THEN create_key(store, arg[t].key, "") ELSE store
           k == get_key(st, arg[t].key)
       IN  store' = [st EXCEPT ![k].versions = <<Version(0, t, arg[t].value)>> \o @]
    /\ tx_table' = [tx_table EXCEPT ![t] = record_write_buffer(@, arg[t].key, arg[t].value)]
    /\ Return(t)
    /\ UNCHANGED <<global_commit_ts, global_tx_seq, wait_for>>

\* One pass of acquire_key_lock as called by the loop of tx_commit, lines
\* 227-234, for write_set_keys[i].
commit_acquire(t, i) ==
    LET r == acquire_key_lock(store, wait_for, tx_table, t, tx_table[t].write_set_keys[i]) IN
    /\ store' = r.store
    /\ wait_for' = r.wait_for
    /\ UNCHANGED <<global_commit_ts, global_tx_seq>>
    /\ IF r.rc = "fail"
       THEN /\ tx_table' = [tx_table EXCEPT ![t].state = "TX_ABORTED"]
            /\ pc' = [pc EXCEPT ![t] = "commit_fail_release"]
            /\ arg' = [arg EXCEPT ![t] = NoArg]
       ELSE /\ UNCHANGED tx_table
            /\ IF r.rc = "retry"
               THEN /\ pc' = [pc EXCEPT ![t] = "commit_acquire"]
                    /\ arg' = [arg EXCEPT ![t] = [NoArg EXCEPT !.i = i]]
               ELSE IF i < Len(tx_table[t].write_set_keys)
                    THEN /\ pc' = [pc EXCEPT ![t] = "commit_acquire"]
                         /\ arg' = [arg EXCEPT ![t] = [NoArg EXCEPT !.i = i + 1]]
                    ELSE /\ pc' = [pc EXCEPT ![t] = "commit_validate"]
                         /\ arg' = [arg EXCEPT ![t] = NoArg]

\* tx_commit, lines 225-234: the state test, then the first lock of the write
\* set; a transaction that wrote nothing goes straight on to line 235.
tx_commit(t) ==
    /\ Idle(t)
    /\ IF ~Active(t)
       THEN /\ Return(t)
            /\ UNCHANGED <<store, global_commit_ts, global_tx_seq, wait_for, tx_table>>
       ELSE IF Len(tx_table[t].write_set_keys) = 0
            THEN /\ pc' = [pc EXCEPT ![t] = "commit_validate"]
                 /\ UNCHANGED <<store, global_commit_ts, global_tx_seq, wait_for,
                                tx_table, arg>>
            ELSE commit_acquire(t, 1)

\* tx_commit, lines 227-234: the later passes of the loop over the write set.
commit_next_lock(t) ==
    /\ pc[t] = "commit_acquire"
    /\ commit_acquire(t, arg[t].i)

\* Mutant of commit_validate: the versions are stamped before the read set is
\* validated.
commit_validate_stamp_first(t) ==
    /\ pc[t] = "commit_validate"
    /\ UNCHANGED <<global_tx_seq, wait_for, arg>>
    /\ LET r == stamp_store(store, 1, t, global_commit_ts) IN
          /\ store' = r.store
          /\ global_commit_ts' = r.ts
    /\ IF check_read_write_conflicts(store, tx_table[t]) # 0
       THEN /\ tx_table' = [tx_table EXCEPT ![t].state = "TX_ABORTED"]
            /\ pc' = [pc EXCEPT ![t] = "commit_fail_release"]
       ELSE /\ tx_table' = [tx_table EXCEPT ![t].state = "TX_COMMITTED"]
            /\ pc' = [pc EXCEPT ![t] = "commit_release"]

\* tx_commit, lines 235-255: validation and publication in one critical section.
commit_validate(t) ==
    /\ pc[t] = "commit_validate"
    /\ UNCHANGED <<global_tx_seq, wait_for, arg>>
    /\ IF check_read_write_conflicts(store, tx_table[t]) # 0
       THEN /\ tx_table' = [tx_table EXCEPT ![t].state = "TX_ABORTED"]
            /\ pc' = [pc EXCEPT ![t] = "commit_fail_release"]
            /\ UNCHANGED <<store, global_commit_ts>>
       ELSE LET r == stamp_store(store, 1, t, global_commit_ts) IN
            /\ store' = r.store
            /\ global_commit_ts' = r.ts
            /\ tx_table' = [tx_table EXCEPT ![t].state = "TX_COMMITTED"]
            /\ pc' = [pc EXCEPT ![t] = "commit_release"]

\* release_locks, lines 173-178.
release_locks(t) ==
    /\ store' = release_store(store, t)
    /\ wait_for' = remove_wait_edges_of(wait_for, t)

\* tx_commit, lines 230-232, 239-240 and 256-257: release_locks, then the
\* return of 0 after a publication and of -1 after a failure.
commit_result(t) == IF pc[t] = "commit_release" THEN 0 ELSE -1

commit_release(t) ==
    /\ pc[t] \in {"commit_release", "commit_fail_release"}
    /\ release_locks(t)
    /\ Return(t)
    /\ UNCHANGED <<global_commit_ts, global_tx_seq, tx_table>>

\* tx_abort, lines 260-279: there is no test of the transaction's state.
tx_abort(t) ==
    /\ Idle(t)
    /\ store' = discard_store(store, t)
    /\ pc' = [pc EXCEPT ![t] = "abort_release"]
    /\ UNCHANGED <<global_commit_ts, global_tx_seq, wait_for, tx_table, arg>>

\* tx_abort, lines 280-283.
abort_release(t) ==
    /\ pc[t] = "abort_release"
    /\ release_locks(t)
    /\ tx_table' = [tx_table EXCEPT ![t].state = "TX_ABORTED"]
    /\ pc' = [pc EXCEPT ![t] = "idle"]
    /\ UNCHANGED <<global_commit_ts, global_tx_seq, arg>>

\* ------------------------------------------------- Spec: arbitrary callers
Next ==
    \/ global_tx_seq <= MaxTx /\ tx_begin /\ UNCHANGED thread
    \/ \E t \in TxIds, k \in KeyNames :
          /\ Len(tx_table[t].read_set) < MaxReads
          /\ tx_read(t, k) /\ UNCHANGED thread
    \/ \E t \in TxIds, k \in KeyNames, v \in Values :
          /\ Len(tx_table[t].write_set_keys) < MaxWrites
          /\ tx_write(t, k, v) /\ UNCHANGED thread
    \/ \E t \in TxIds : write_retry(t) /\ UNCHANGED thread
    \/ \E t \in TxIds : write_buffer(t) /\ UNCHANGED thread
    \/ \E t \in TxIds : tx_commit(t) /\ UNCHANGED thread
    \/ \E t \in TxIds : commit_next_lock(t) /\ UNCHANGED thread
    \/ \E t \in TxIds : commit_validate(t) /\ UNCHANGED thread
    \/ \E t \in TxIds : commit_release(t) /\ UNCHANGED thread
    \/ \E t \in TxIds : tx_abort(t) /\ UNCHANGED thread
    \/ \E t \in TxIds : abort_release(t) /\ UNCHANGED thread

Spec == Init /\ [][Next]_vars

\* ------------------------------------------- SpecDemo: the program of main
\* main, lines 299-309: the keys exist, both workers are started.
InitDemo ==
    /\ InitEngine
    /\ thread = [w \in Threads |->
                    [step |-> IF w = "main" THEN "join" ELSE "begin", tx |-> 0, rc |-> 0]]

Goto(w, step) == thread' = [thread EXCEPT ![w].step = step]

\* worker_fn, lines 287-297, one call at a time; the usleep of line 292 orders
\* nothing. A call that takes the mutex again later goes on in Internal.
WorkerCalls(w, a) ==
    LET t == thread[w].tx
    IN  \/ /\ thread[w].step = "begin"
           /\ tx_begin
           /\ thread' = [thread EXCEPT ![w].step = "read", ![w].tx = global_tx_seq]
        \/ /\ thread[w].step = "read"
           /\ tx_read(t, a.k1)
           /\ Goto(w, "write1")
        \/ /\ thread[w].step = "write1"
           /\ tx_write(t, a.k1, a.v1)
           /\ Goto(w, "write2")
        \/ /\ thread[w].step = "write2"
           /\ tx_write(t, a.k2, a.v2)
           /\ Goto(w, "commit")
        \/ /\ thread[w].step = "commit"
           /\ tx_commit(t)
           /\ thread' = [thread EXCEPT ![w].step = "check",
                                       ![w].rc = IF Active(t) THEN @ ELSE -1]
        \/ /\ thread[w].step = "check"
           /\ Idle(t)
           /\ thread[w].rc = 0
           /\ Goto(w, "done")
           /\ UNCHANGED <<store, global_commit_ts, global_tx_seq, wait_for, tx_table,
                          pc, arg>>
        \/ /\ thread[w].step = "check"
           /\ thread[w].rc # 0
           /\ tx_abort(t)
           /\ Goto(w, "abort")
        \/ /\ thread[w].step = "abort"
           /\ Idle(t)
           /\ Goto(w, "done")
           /\ UNCHANGED <<store, global_commit_ts, global_tx_seq, wait_for, tx_table,
                          pc, arg>>

WorkerStep(w) == WorkerCalls(w, WorkerArgs[w])

\* The later critical sections of the call thread w has in progress.
Internal(w) ==
    LET t == thread[w].tx
    IN  /\ t # 0
        /\ \/ write_retry(t) /\ UNCHANGED thread
           \/ write_buffer(t) /\ UNCHANGED thread
           \/ commit_next_lock(t) /\ UNCHANGED thread
           \/ commit_validate(t) /\ UNCHANGED thread
           \/ commit_release(t) /\ thread' = [thread EXCEPT ![w].rc = commit_result(t)]
           \/ abort_release(t) /\ UNCHANGED thread

\* main, lines 308-314: after both joins, a new transaction reads A and B.
MainStep ==
    \/ /\ thread["main"].step = "join"
       /\ \A w \in Workers : thread[w].step = "done"
       /\ tx_begin
       /\ thread' = [thread EXCEPT !["main"].step = "readA", !["main"].tx = global_tx_seq]
    \/ /\ thread["main"].step = "readA"
       /\ tx_read(thread["main"].tx, "A")
       /\ Goto("main", "readB")
    \/ /\ thread["main"].step = "readB"
       /\ tx_read(thread["main"].tx, "B")
       /\ Goto("main", "exit")

Run(w) == WorkerStep(w) \/ Internal(w)

NextDemo == MainStep \/ \E w \in Workers : Run(w)

\* Every thread that can take a step eventually takes one.
SpecDemo ==
    /\ InitDemo /\ [][NextDemo]_vars
    /\ WF_vars(MainStep)
    /\ \A w \in Workers : WF_vars(Run(w))

\* ------------------------------- SpecWait: three workers on three keys
\* worker_fn run by three threads over keys A, B and C, each with its own pair
\* of keys: the lock waits of two and of three transactions, with bystanders.
Clients == {"c1", "c2", "c3"}
KeyPair(x, y) == [k1 |-> x, v1 |-> "v1", k2 |-> y, v2 |-> "v2"]
\* The pairs of distinct keys a worker may be given.
ClientArgs ==
    <<KeyPair("A", "B"), KeyPair("B", "A"), KeyPair("B", "C"),
      KeyPair("C", "A"), KeyPair("A", "C"), KeyPair("C", "B")>>

\* The three keys exist and the three workers are started, the first with
\* (A, B) and the other two with the pairs a case names.
InitWaitOn(cases) ==
    /\ store = create_key(create_key(create_key(<<>>, "A", "initialA"),
                                     "B", "initialB"), "C", "initialC")
    /\ global_commit_ts = 1
    /\ global_tx_seq = 1
    /\ wait_for = {}
    /\ tx_table = [t \in TxIds |-> NoTx]
    /\ pc = [t \in TxIds |-> "idle"]
    /\ arg = [t \in TxIds |-> NoArg]
    /\ \E x \in cases :
          thread = [c \in Clients |->
                 [step |-> "begin", tx |-> 0, rc |-> 0,
                  a |-> ClientArgs[IF c = "c1" THEN 1 ELSE IF c = "c2" THEN x[1] ELSE x[2]]]]

\* Workers and keys are interchangeable: with the first worker on (A, B), the
\* other two take any two pairs, in one order.
InitWait ==
    InitWaitOn({<<i, j>> : i \in 1..Len(ClientArgs), j \in 1..Len(ClientArgs)}
                  \cap {x \in (1..Len(ClientArgs)) \X (1..Len(ClientArgs)) : x[1] <= x[2]})

ClientRun(c) == WorkerCalls(c, thread[c].a) \/ Internal(c)

NextWait == \E c \in Clients : ClientRun(c)

SpecWait ==
    /\ InitWait /\ [][NextWait]_vars
    /\ \A c \in Clients : WF_vars(ClientRun(c))

\* The two cases with a cycle of waits: the ring (A,B), (B,C), (C,A), and the
\* pair (A,B), (B,A) with a third worker on (C,A) that waits beside the cycle.
InitCycles == InitWaitOn({<<3, 4>>, <<2, 4>>})

SpecCycles ==
    /\ InitCycles /\ [][NextWait]_vars
    /\ \A c \in Clients : WF_vars(ClientRun(c))

\* ================================================================ claims
Begun == {t \in TxIds : tx_table[t].id # 0}
Terminal(t) == tx_table[t].state \in {"TX_COMMITTED", "TX_ABORTED"}
Chain(k) == store[get_key(store, k)].versions
Exists(k) == get_key(store, k) # 0
Committing(t) == Active(t) /\ tx_table'[t].state = "TX_COMMITTED"

\* ---------------------------------------------------------------- C1
\* A key t has read carries a version committed after t's snapshot.
StaleRead(t) ==
    \E i \in 1..Len(tx_table[t].read_set) :
        /\ Exists(tx_table[t].read_set[i])
        /\ \E n \in 1..Len(Chain(tx_table[t].read_set[i])) :
              Chain(tx_table[t].read_set[i])[n].commit_ts > tx_table[t].start_ts

\* C1: tx_commit(T) never succeeds when some key of T's read set has a version
\* committed by another transaction with commit_ts > T.start_ts.
C1_StaleReadNeverCommits ==
    [][\A t \in TxIds : Committing(t) => ~StaleRead(t)]_vars

\* ---------------------------------------------------------------- C2
OwnVersions(t, k) == {n \in 1..Len(Chain(k)) : IsOwn(Chain(k)[n], t)}
VisibleVersions(t, k) ==
    {n \in 1..Len(Chain(k)) :
        Chain(k)[n].commit_ts > 0 /\ Chain(k)[n].commit_ts <= tx_table[t].start_ts}

\* What the snapshot rule gives t for k: its newest buffered write, else the
\* committed version with the greatest commit_ts <= start_ts, else not found.
SnapshotValue(t, k) ==
    IF ~Exists(k) THEN NULL
    ELSE IF OwnVersions(t, k) # {}
         THEN Chain(k)[CHOOSE n \in OwnVersions(t, k) : \A m \in OwnVersions(t, k) : n <= m].value
         ELSE IF VisibleVersions(t, k) # {}
              THEN Chain(k)[CHOOSE n \in VisibleVersions(t, k) :
                              \A m \in VisibleVersions(t, k) :
                                 Chain(k)[m].commit_ts <= Chain(k)[n].commit_ts].value
              ELSE NULL

\* C2: for every Active transaction T and key K, tx_read returns T's own
\* buffered write to K if there is one, otherwise the value of the committed
\* version of K with the greatest commit_ts <= T.start_ts, otherwise not found.
C2_SnapshotRead ==
    \A t \in Begun : \A k \in KeyNames :
        (Active(t) /\ pc[t] = "idle") => read_value(t, k) = SnapshotValue(t, k)

\* ---------------------------------------------------------------- C3
\* The timestamps tx_commit gives, in this step, to the versions t had buffered.
StampedBy(t) ==
    UNION {{store'[i].versions[n].commit_ts :
               n \in {m \in 1..Len(store[i].versions) : IsOwn(store[i].versions[m], t)}} :
           i \in 1..Len(store)}

\* C3: after tx_commit(T) succeeds every version T had buffered carries one
\* and the same commit_ts, and every reader sees all of T's writes or none.
C3_CommitAtomic ==
    [][\A t \in TxIds : Committing(t) =>
          /\ Cardinality(StampedBy(t)) <= 1
          /\ \A r \in Begun :
                \/ \A ts \in StampedBy(t) : ts <= tx_table[r].start_ts
                \/ \A ts \in StampedBy(t) : ts > tx_table[r].start_ts]_vars

\* ---------------------------------------------------------------- C4
\* C4: once a transaction is Committed or Aborted no later operation on it
\* changes its state; a Committed transaction never becomes Aborted.
C4_TerminalIsFinal ==
    [][\A t \in TxIds : Terminal(t) => tx_table'[t].state = tx_table[t].state]_vars

\* ---------------------------------------------------------------- C5
NotOwnedBy(versions, t) ==
    LET Keep(v) == ~IsOwn(v, t) IN SelectSeq(versions, Keep)
LocksOf(t) == {i \in 1..Len(store) : store[i].lock_owner = t}

\* C5: tx_abort(T) takes T's uncommitted versions out of every chain and leaves
\* every other version in place and in order; when it returns no chain holds an
\* uncommitted version of T and T holds no lock.
C5_AbortIsolation ==
    [][\A t \in TxIds :
          /\ (pc[t] = "idle" /\ pc'[t] = "abort_release") =>
                /\ Len(store') = Len(store)
                /\ \A i \in 1..Len(store) :
                      /\ store'[i].versions = NotOwnedBy(store[i].versions, t)
                      /\ store'[i].lock_owner = store[i].lock_owner
          /\ (pc[t] = "abort_release" /\ pc'[t] = "idle") =>
                /\ \A i \in 1..Len(store') :
                      /\ store'[i].versions = store[i].versions
                      /\ \A n \in 1..Len(store'[i].versions) : ~IsOwn(store'[i].versions[n], t)
                      /\ store'[i].lock_owner # t
                      /\ store[i].lock_owner # t => store'[i].lock_owner = store[i].lock_owner
                /\ tx_table'[t].state = "TX_ABORTED"]_vars

\* An aborted transaction that had written one key twice, beside another
\* transaction's buffered version, with nothing ever committed.
C5_Witness ==
    \E t \in Begun, u \in Begun :
        /\ t # u
        /\ tx_table[t].state = "TX_ABORTED" /\ pc[t] = "idle"
        /\ Len(tx_table[t].write_set_keys) = 2
        /\ tx_table[t].write_set_keys[1] = tx_table[t].write_set_keys[2]
        /\ global_commit_ts = 1
        /\ \A i \in 1..Len(store) :
              /\ store[i].lock_owner # t
              /\ \A n \in 1..Len(store[i].versions) : ~IsOwn(store[i].versions[n], t)
        /\ \E i \in 1..Len(store) : \E n \in 1..Len(store[i].versions) :
              IsOwn(store[i].versions[n], u)

\* ---------------------------------------------------------------- C7
Wrote(t, k) == \E i \in 1..Len(tx_table[t].write_set_keys) : tx_table[t].write_set_keys[i] = k
LastWrite(t, k) ==
    LET i == CHOOSE i \in 1..Len(tx_table[t].write_set_keys) :
                /\ tx_table[t].write_set_keys[i] = k
                /\ \A j \in (i + 1)..Len(tx_table[t].write_set_keys) :
                      tx_table[t].write_set_keys[j] # k
    IN  tx_table[t].write_set_vals[i]

\* C7: while T is Active, tx_read(T, K) returns the value of T's most recent
\* successful tx_write to K, whatever other transactions have done.
C7_ReadYourOwnWrites ==
    \A t \in Begun : \A k \in KeyNames :
        (Active(t) /\ pc[t] = "idle" /\ Wrote(t, k)) => read_value(t, k) = LastWrite(t, k)

\* T has written K twice with different values and read it, and K carries a
\* version another transaction committed after T began.
C7_Witness ==
    \E t \in Begun : \E k \in KeyNames :
        /\ Active(t) /\ pc[t] = "idle"
        /\ tx_table[t].write_set_keys = <<k, k>>
        /\ tx_table[t].write_set_vals[1] # tx_table[t].write_set_vals[2]
        /\ tx_table[t].read_set = <<k>>
        /\ read_value(t, k) = tx_table[t].write_set_vals[2]
        /\ \E n \in 1..Len(Chain(k)) : Chain(k)[n].commit_ts > tx_table[t].start_ts

\* ---------------------------------------------------------------- C8
\* C8: tx_write by an Active transaction on a key that is not in the store
\* goes on to create the key and buffer the value, and leaves T Active.
C8_LazyKeyCreation ==
    [][\A t \in TxIds : \A k \in KeyNames : \A v \in Values :
          (Active(t) /\ ~Exists(k) /\ tx_write(t, k, v)) =>
              /\ tx_table'[t].state = "TX_ACTIVE"
              /\ pc'[t] = "write_buffer"]_vars

\* --------------------------------------------------------------- C10
VersionIds == UNION {{<<i, n>> : n \in 1..Len(store[i].versions)} : i \in 1..Len(store)}
TsOf(x) == store[x[1]].versions[x[2]].commit_ts

\* No two versions stamped by a commit carry the same timestamp (the versions
\* create_key makes all carry 1), and no snapshot is ahead of the counter.
DistinctCommitTs ==
    /\ \A x \in VersionIds : \A y \in VersionIds :
          (x # y /\ TsOf(x) > 1) => TsOf(x) # TsOf(y)
    /\ \A x \in VersionIds : TsOf(x) <= global_commit_ts
    /\ \A t \in Begun : tx_table[t].start_ts <= global_commit_ts

\* C10: commit timestamps are unique, the global counter never decreases, and
\* a timestamp stamped on a version is greater than the old counter and than
\* the start_ts of every transaction begun before the stamping.
C10_CommitTsUniqueMonotonic ==
    /\ []DistinctCommitTs
    /\ [][/\ global_commit_ts' >= global_commit_ts
          /\ \A t \in TxIds : Committing(t) =>
                \A ts \in StampedBy(t) :
                    /\ ts > global_commit_ts
                    /\ ts <= global_commit_ts'
                    /\ \A r \in Begun : ts > tx_table[r].start_ts]_vars

\* Two transactions have committed writes, one after the other.
C10_Witness ==
    /\ global_commit_ts >= 3
    /\ \A t \in 1..2 :
          /\ tx_table[t].state = "TX_COMMITTED"
          /\ Len(tx_table[t].write_set_keys) >= 1
    /\ tx_table[2].start_ts = 1

\* ======================================================= claims on SpecDemo
TxOf(w) == thread[w].tx
StateOf(w) == IF TxOf(w) = 0 THEN "TX_NONE" ELSE tx_table[TxOf(w)].state
Holds(t, k) == Exists(k) /\ store[get_key(store, k)].lock_owner = t
AllDone == \A w \in Workers : thread[w].step = "done"
Other(w) == CHOOSE u \in Workers : u # w

\* Each worker holds the lock of its first key: each will ask for the other's.
CrossHold ==
    \A w \in Workers : TxOf(w) # 0 /\ Active(TxOf(w)) /\ Holds(TxOf(w), WorkerArgs[w].k1)

OneAbortedOneCommitted ==
    \E w \in Workers :
        StateOf(w) = "TX_ABORTED" /\ StateOf(Other(w)) = "TX_COMMITTED"

\* ---------------------------------------------------------------- C6
\* C6: when each of two transactions holds a lock the other goes on to ask
\* for, the two are never both aborted, and the run ends with one of them
\* Aborted (and rolled back by its caller) and the other Committed.
C6_DeadlockLiveness ==
    /\ [](~(\A w \in Workers : StateOf(w) = "TX_ABORTED"))
    /\ CrossHold ~> (AllDone /\ OneAbortedOneCommitted)

\* One worker spins on the key the other holds, while both hold their first key.
C6_Witness ==
    /\ CrossHold
    /\ \E w \in Workers :
          /\ pc[TxOf(w)] = "write_acquire"
          /\ <<TxOf(w), TxOf(Other(w))>> \in wait_for

\* ---------------------------------------------------------------- C9
WrittenBy(w, k) == IF WorkerArgs[w].k1 = k THEN WorkerArgs[w].v1 ELSE WorkerArgs[w].v2
MainReads == thread["main"].step \in {"readA", "readB", "exit"}
FinalRead(k) == read_value(TxOf("main"), k)
SurvivorWrites(w) ==
    /\ StateOf(w) = "TX_COMMITTED"
    /\ FinalRead("A") = WrittenBy(w, "A")
    /\ FinalRead("B") = WrittenBy(w, "B")

Uncommitted(i) == {n \in 1..Len(store[i].versions) : store[i].versions[n].commit_ts = 0}
OwnerOf(i, n) == store[i].versions[n].tx_owner
InRelease(t) == pc[t] \in {"commit_release", "commit_fail_release", "abort_release"}

\* --------------------------------------------------------------- C11
\* The uncommitted versions of Active transactions in one chain have one
\* owner, and that owner holds the lock of the key.
OneWriter ==
    \A i \in 1..Len(store) :
        /\ store[i].lock_owner \in {0} \cup TxIds
        /\ \A n \in Uncommitted(i) :
              /\ OwnerOf(i, n) \in TxIds
              /\ Active(OwnerOf(i, n)) =>
                    /\ store[i].lock_owner = OwnerOf(i, n)
                    /\ \A m \in Uncommitted(i) :
                          Active(OwnerOf(i, m)) => OwnerOf(i, m) = OwnerOf(i, n)

\* C11: each key has at most one lock owner, a lock T has acquired stays T's
\* until T's release_locks frees it, no chain holds uncommitted versions of two
\* Active transactions, and an Active transaction's uncommitted version sits in
\* a chain whose key it has locked.
C11_OneWriterPerKey ==
    /\ []OneWriter
    /\ [][\A i \in 1..Len(store) : \A t \in TxIds :
             (store[i].lock_owner = t /\ store'[i].lock_owner # t) =>
                 /\ InRelease(t)
                 /\ pc'[t] = "idle"
                 /\ store'[i].lock_owner = 0]_vars

\* Each of two Active transactions has buffered a version under its own lock,
\* and one of them is spinning on the key the other holds.
C11_Witness ==
    \E t \in Begun, u \in Begun :
        /\ t # u /\ Active(t) /\ Active(u)
        /\ \E i \in 1..Len(store), j \in 1..Len(store) :
              /\ i # j
              /\ store[i].lock_owner = t /\ store[j].lock_owner = u
              /\ \E n \in Uncommitted(i) : OwnerOf(i, n) = t
              /\ \E n \in Uncommitted(j) : OwnerOf(j, n) = u
              /\ pc[u] = "write_acquire" /\ arg[u].key = store[i].name

\* --------------------------------------------------------------- C12
OwnSeq(versions, t) ==
    LET Mine(v) == IsOwn(v, t) IN SelectSeq(versions, Mine)
NumCommitted(versions) ==
    Cardinality({n \in 1..Len(versions) : versions[n].commit_ts > 0})
ChainsUnchanged ==
    /\ Len(store') = Len(store)
    /\ \A i \in 1..Len(store) : store'[i].versions = store[i].versions
CommitFails(t) == pc[t] # "commit_fail_release" /\ pc'[t] = "commit_fail_release"
CommitFailReturns(t) == pc[t] = "commit_fail_release" /\ pc'[t] = "idle"

\* What a read returns is a committed version of the chain or the reader's own.
ReadsCommittedOrOwn ==
    \A r \in Begun : \A k \in KeyNames :
        (Exists(k) /\ read_value(r, k) # NULL) =>
            \E n \in 1..Len(Chain(k)) :
                /\ Chain(k)[n].value = read_value(r, k)
                /\ Chain(k)[n].commit_ts > 0 \/ IsOwn(Chain(k)[n], r)

\* C12: a tx_commit(T) that fails stamps none of T's versions and leaves the
\* commit counter alone, T is Aborted and holds no lock when the call returns,
\* and the versions of an Aborted transaction are never stamped afterwards (they
\* stay as they are or are unlinked), so no other transaction reads them.
C12_FailedCommitPublishesNothing ==
    /\ []ReadsCommittedOrOwn
    /\ [][\A t \in TxIds :
             /\ CommitFails(t) =>
                   /\ ChainsUnchanged
                   /\ global_commit_ts' = global_commit_ts
                   /\ tx_table'[t].state = "TX_ABORTED"
             /\ CommitFailReturns(t) =>
                   /\ ChainsUnchanged
                   /\ global_commit_ts' = global_commit_ts
                   /\ tx_table'[t].state = "TX_ABORTED"
                   /\ \A i \in 1..Len(store') : store'[i].lock_owner # t
             /\ tx_table[t].state = "TX_ABORTED" =>
                   \A i \in 1..Len(store) :
                       \/ OwnSeq(store'[i].versions, t) = OwnSeq(store[i].versions, t)
                       \/ /\ OwnSeq(store'[i].versions, t) = <<>>
                          /\ NumCommitted(store'[i].versions) = NumCommitted(store[i].versions)]_vars

\* T's commit failed on a read-write conflict and has returned: T is Aborted
\* and holds no lock, its buffered version is still in its chain, unstamped,
\* and the key it read carries the version committed after its snapshot.
C12_Witness ==
    \E t \in Begun :
        /\ tx_table[t].state = "TX_ABORTED" /\ pc[t] = "idle"
        /\ LocksOf(t) = {}
        /\ \E i \in 1..Len(store) : OwnSeq(store[i].versions, t) # <<>>
        /\ StaleRead(t)

\* --------------------------------------------------------------- C13
Begins(t) == tx_table[t].id = 0 /\ tx_table'[t].id # 0

\* The transactions begun so far are those numbered below global_tx_seq.
BegunInOrder ==
    /\ Begun = 1..(global_tx_seq - 1)
    /\ \A t \in Begun : tx_table[t].id = t

\* C13: tx_begin gives the transaction an id no earlier one has (ids grow in
\* begin order) and start_ts = the commit counter at that instant: every
\* version committed before the begin has commit_ts <= start_ts, every version
\* committed after it has commit_ts > start_ts, and start_ts never changes.
C13_BeginSnapshot ==
    /\ []BegunInOrder
    /\ [][/\ \A t \in TxIds : Begins(t) =>
                /\ t = global_tx_seq
                /\ global_tx_seq' = t + 1
                /\ \A u \in Begun : u < t
                /\ tx_table'[t].id = t
                /\ tx_table'[t].state = "TX_ACTIVE"
                /\ tx_table'[t].start_ts = global_commit_ts
                /\ store' = store
                /\ \A x \in VersionIds : TsOf(x) <= tx_table'[t].start_ts
          /\ \A t \in TxIds : Committing(t) =>
                \A r \in Begun : \A ts \in StampedBy(t) : ts > tx_table[r].start_ts
          /\ \A t \in Begun : tx_table'[t].start_ts = tx_table[t].start_ts]_vars

\* T began after one commit (its snapshot holds that commit's version) and a
\* version has been committed after T's begin.
C13_Witness ==
    \E t \in Begun :
        /\ tx_table[t].start_ts >= 2
        /\ \E x \in VersionIds : TsOf(x) > 1 /\ TsOf(x) <= tx_table[t].start_ts
        /\ \E x \in VersionIds : TsOf(x) > tx_table[t].start_ts

\* --------------------------------------------------------------- C14
CommittedIn(i) == {n \in 1..Len(store[i].versions) : store[i].versions[n].commit_ts > 0}

OneUncommittedPerOwner ==
    \A i \in 1..Len(store) : \A t \in TxIds : Len(OwnSeq(store[i].versions, t)) <= 1

CommittedNonIncreasing ==
    \A i \in 1..Len(store) :
        \A n \in CommittedIn(i) : \A m \in CommittedIn(i) :
            n < m => store[i].versions[n].commit_ts >= store[i].versions[m].commit_ts

\* C14: each chain holds at most one uncommitted version per owning
\* transaction, and the commit timestamps of its committed versions do not
\* increase from head to tail.
C14_ChainInvariant == OneUncommittedPerOwner /\ CommittedNonIncreasing

\* --------------------------------------------------------------- C18
\* A pass of the lock loop of tx_commit(t), lines 227-234.
CommitLockStep(t) ==
    /\ pc[t] \in {"idle", "commit_acquire"}
    /\ pc'[t] \in {"commit_acquire", "commit_validate", "commit_fail_release"}
    /\ pc'[t] # pc[t] \/ arg'[t] # arg[t]

\* A transaction inside tx_commit waits for nobody.
CommitNeverWaits ==
    \A t \in Begun :
        pc[t] \in {"commit_acquire", "commit_validate", "commit_release",
                   "commit_fail_release"} =>
            \A u \in TxIds : <<t, u>> \notin wait_for

\* Every key an Active transaction has written is locked by it (tx_abort sets
\* the state last, after its release_locks).
WriteSetLocked ==
    \A t \in Begun :
        (Active(t) /\ pc[t] # "abort_release") =>
            \A n \in 1..Len(tx_table[t].write_set_keys) :
                Holds(t, tx_table[t].write_set_keys[n])

\* C18: every key in the write set of an Active transaction is locked by it,
\* so each pass of the lock loop of tx_commit returns at once through the
\* re-entrant branch: it changes neither the store nor the wait-for graph, adds
\* no wait-for edge, goes on to the next key or to validation, and never fails;
\* tx_commit fails only in validation.
C18_CommitLocksReentrant ==
    /\ []WriteSetLocked
    /\ []CommitNeverWaits
    /\ [][\A t \in TxIds :
             /\ CommitLockStep(t) =>
                   /\ store' = store
                   /\ wait_for' = wait_for
                   /\ tx_table' = tx_table
                   /\ pc'[t] # "commit_fail_release"
                   /\ pc'[t] = "commit_acquire" =>
                         arg'[t].i = (IF pc[t] = "idle" THEN 2 ELSE arg[t].i + 1)
             /\ CommitFails(t) => pc[t] = "commit_validate"]_vars

\* T is inside the lock loop of tx_commit, at the second key of its write set,
\* while another transaction spins on a key T holds.
C18_Witness ==
    \E t \in Begun, u \in Begun :
        /\ t # u
        /\ pc[t] = "commit_acquire" /\ arg[t].i = 2
        /\ pc[u] = "write_acquire" /\ Holds(t, arg[u].key)
        /\ <<u, t>> \in wait_for

\* --------------------------------------------------------------- C16
\* This step is the failure return of tx_write(t, k, _): from its first pass of
\* acquire_key_lock or from a later one.
WriteFailsOn(t, k) ==
    /\ Active(t)
    /\ tx_table'[t].state = "TX_ABORTED"
    /\ \/ \E v \in Values : tx_write(t, k, v)
       \/ write_retry(t) /\ arg[t].key = k

\* C16: when tx_write(T, K, V) fails on a deadlock, T becomes Aborted, the
\* wait-for edges from and to T are cleared, and the store is untouched: no
\* version is added to K, T's locks stay T's and T's buffered versions stay in
\* their chains. They stay so through every later step until tx_abort(T), and
\* no other transaction gets a key T holds.
C16_FailedWriteKeepsLocks ==
    [][\A t \in TxIds :
          /\ \A k \in KeyNames : (WriteFailsOn(t, k) /\ Exists(k)) =>
                /\ store' = store
                /\ wait_for' = {e \in wait_for : e[1] # t /\ e[2] # t}
                /\ pc'[t] = "idle"
          /\ (tx_table[t].state = "TX_ABORTED" /\ pc[t] = "idle" /\ pc'[t] = "idle") =>
                /\ tx_table'[t].state = "TX_ABORTED"
                /\ \A i \in 1..Len(store) :
                      /\ store[i].lock_owner = t <=> store'[i].lock_owner = t
                      /\ OwnSeq(store'[i].versions, t) = OwnSeq(store[i].versions, t)]_vars

\* T has just failed a write on a deadlock: it is Aborted, still holds the key
\* it wrote with its version in the chain, the wait-for graph is empty, and the
\* other transaction, which holds the other key, is spinning on T's key.
C16_Witness ==
    \E t \in Begun, u \in Begun :
        /\ t # u
        /\ tx_table[t].state = "TX_ABORTED" /\ pc[t] = "idle"
        /\ Active(u) /\ pc[u] = "write_acquire"
        /\ Holds(t, arg[u].key)
        /\ OwnSeq(Chain(arg[u].key), t) # <<>>
        /\ LocksOf(u) # {}
        /\ wait_for = {}

\* --------------------------------------------------------------- C19
\* This step is the buffering of a write of k by t.
BuffersWrite(t, k) == pc[t] = "write_buffer" /\ pc'[t] = "idle" /\ arg[t].key = k
InAbort(t) == pc[t] = "abort_release" \/ pc'[t] = "abort_release"

\* C19: what tx_read(T, K) returns to an Active T is the same before and after
\* every step that is not T's own write of K (and not T's own tx_abort):
\* writes, commits and aborts of other transactions do not change it.
C19_RepeatableRead ==
    [][\A t \in Begun : \A k \in KeyNames :
          (/\ Active(t) /\ tx_table'[t].state = "TX_ACTIVE"
           /\ ~BuffersWrite(t, k) /\ ~InAbort(t)) =>
              read_value(t, k)' = read_value(t, k)]_vars

\* T has read K and not written it, K has since got a version committed by
\* another transaction after T's snapshot, and T still reads the older value.
C19_Witness ==
    \E t \in Begun : \E k \in KeyNames :
        /\ Active(t) /\ pc[t] = "idle"
        /\ tx_table[t].read_set = <<k>>
        /\ ~Wrote(t, k)
        /\ Exists(k)
        /\ Chain(k)[1].commit_ts > tx_table[t].start_ts
        /\ read_value(t, k) # Chain(k)[1].value

\* ================================================= claims on the lock waits
\* The key whose lock a is asking for, inside tx_write or tx_commit.
Asking(a) == pc[a] \in {"write_acquire", "commit_acquire"}
WaitKey(a) ==
    IF pc[a] = "write_acquire" THEN arg[a].key ELSE tx_table[a].write_set_keys[arg[a].i]
\* a is spinning in acquire_key_lock on a key whose lock_owner is b.
RealEdge(a, b) == Asking(a) /\ Holds(b, WaitKey(a))

RECURSIVE Closure(_, _)
Closure(R, n) ==
    IF n = 0 THEN R
    ELSE LET S == Closure(R, n - 1)
         IN  S \cup {<<x[1][1], x[2][2]>> : x \in {y \in S \X S : y[1][2] = y[2][1]}}
Paths(R) == Closure(R, Cardinality(TxIds))
Acyclic(R) == \A t \in TxIds : <<t, t>> \notin Paths(R)

LockOwner(k) == store[get_key(store, k)].lock_owner

\* --------------------------------------------------------------- C15
\* Between critical sections every wait-for edge is a transaction spinning on
\* a key its target holds, and the graph has no cycle.
WaitForSound ==
    /\ \A e \in wait_for : RealEdge(e[1], e[2])
    /\ Acyclic(wait_for)

\* C15: acquire_key_lock(tid, K) returns the deadlock failure only when the
\* edge it adds, tid -> lock_owner(K), closes a cycle through tid whose other
\* edges A -> B are each a transaction A spinning on a key whose lock_owner is
\* B; no other transaction is made a victim in that step; and the wait-for
\* graph is acyclic whenever the mutex is free.
C15_DeadlockOnlyOnRealCycle ==
    /\ []WaitForSound
    /\ [][\A t \in TxIds : \A k \in KeyNames :
             (WriteFailsOn(t, k) /\ Exists(k)) =>
                 /\ LockOwner(k) \notin {0, t}
                 /\ <<LockOwner(k), t>> \in
                       Paths({e \in wait_for : RealEdge(e[1], e[2])}) \cup {<<t, t>>}
                 /\ \A u \in TxIds \ {t} : tx_table'[u].state = tx_table[u].state]_vars

\* The third worker of a ring has just been refused: it is Aborted and still
\* holds its first key, the second spins on that key with its edge cleared,
\* and the first still waits for the second.
C15_Witness ==
    \E a \in Begun, b \in Begun, c \in Begun :
        /\ a # b /\ b # c /\ a # c
        /\ tx_table[c].state = "TX_ABORTED" /\ pc[c] = "idle" /\ LocksOf(c) # {}
        /\ Active(a) /\ Active(b)
        /\ pc[a] = "write_acquire" /\ Holds(b, arg[a].key)
        /\ pc[b] = "write_acquire" /\ Holds(c, arg[b].key)
        /\ wait_for = {<<a, b>>}

\* --------------------------------------------------------------- C17
ClientsDone == \A c \in Clients : thread[c].step = "done"
AllTerminal == \A c \in Clients : TxOf(c) # 0 /\ Terminal(TxOf(c)) /\ pc[TxOf(c)] = "idle"

\* This step takes t out of the retry loop of acquire_key_lock.
LeavesWait(t) == pc[t] = "write_acquire" /\ pc'[t] # "write_acquire"

\* C17: with every worker calling tx_abort after a failed commit and every
\* thread weakly fair, the run ends with every worker finished, its transaction
\* Committed or Aborted and no call in progress (so every call of
\* acquire_key_lock has returned), and a waiter leaves the retry loop only by
\* taking the lock it found free or by its own attempt closing a cycle.
C17_LockWaitsEnd ==
    /\ <>[](ClientsDone /\ AllTerminal)
    /\ [][\A t \in TxIds : LeavesWait(t) =>
             \/ /\ pc'[t] = "write_buffer"
                /\ LockOwner(arg[t].key) = 0
                /\ store'[get_key(store, arg[t].key)].lock_owner = t
             \/ /\ tx_table'[t].state = "TX_ABORTED"
                /\ LockOwner(arg[t].key) \notin {0, t}
                /\ <<LockOwner(arg[t].key), t>> \in Paths(wait_for)]_vars

\* Every worker has finished after a wait was broken by a deadlock report: a
\* transaction is Aborted, another is Committed, no lock is held and no edge
\* is left.
C17_Witness ==
    /\ ClientsDone /\ AllTerminal
    /\ \E c \in Clients : StateOf(c) = "TX_ABORTED" /\ Len(tx_table[TxOf(c)].write_set_keys) = 1
    /\ \E c \in Clients : StateOf(c) = "TX_COMMITTED"
    /\ \A i \in 1..Len(store) : store[i].lock_owner = 0
    /\ wait_for = {}

====
